---- MODULE Spec2Model ----
(***************************************************************************)
(* Model of the one-page review dashboard script src/app.py: the uploaded  *)
(* tables, the sidebar filters, the license / submission roll-ups, the     *)
(* drill-down views and the risk radar.  A script run is a sequence of     *)
(* steps (pc); every step is one action that computes what the             *)
(* corresponding block of the script assigns.                              *)
(*                                                                         *)
(* Representation.  A cell that may be missing is a sequence of length 0   *)
(* (NaN / NaT / None) or of length 1 (the value).  A DataFrame is a record *)
(* [columns, rows] whose rows are a set of records, each identified by its *)
(* index idx (row order plays no role in any roll-up).  Integer time       *)
(* stamps are kept in whole seconds: an epoch-millisecond cell with field  *)
(* secs stands for the value secs * 1000, which does not fit TLC's 32 bit  *)
(* integers.                                                               *)
(***************************************************************************)
EXTENDS Integers, Sequences, FiniteSets, TLC

VARIABLES
    pc,               \* position of the script run
    err,              \* exception that ended the run ("" when none)
    f_license,        \* uploaded files (NoFile when the uploader is empty)
    f_lesson,
    f_meta,
    f_susp,
    license_df,       \* tables read from the files
    ldf,
    meta,
    susp,
    date_range,       \* sidebar widgets
    user_filter,
    user_list,
    license_filtered,
    license_agg,
    selected_user,
    qb_agg,
    susp_shown,
    views,            \* drill-down tables of the selected user
    vals              \* risk radar factors

vars == <<pc, err, f_license, f_lesson, f_meta, f_susp, license_df, ldf, meta,
          susp, date_range, user_filter, user_list, license_filtered,
          license_agg, selected_user, qb_agg, susp_shown, views, vals>>

----------------------------------------------------------------------------
(* Bounds of the enumerated inputs. *)

MaxRows == 2          \* rows of an exhaustively enumerated license table
MaxSubRows == 2       \* rows of an exhaustively enumerated submission table
Year == 2025          \* year of every calendar date fed in
MaxOver == 2          \* how far a generated table goes past a threshold or cap

----------------------------------------------------------------------------
(* Missing values. *)

NaN == <<>>

Some(v) == <<v>>

isna(c) == c = NaN

notna(c) == c # NaN

Val(c) == c[1]

Min(a, b) == IF a <= b THEN a ELSE b

\* An uploader that holds no file, and pd.DataFrame().
NoFile == <<>>

EmptyFrame == [columns |-> {}, rows |-> {}]

empty(df) == df.rows = {} \/ df.columns = {}

----------------------------------------------------------------------------
(* pd.read_csv: text cells.  The default na_values turn these texts into   *)
(* NaN; every other text is kept as it is.                                 *)

NaTexts == {"", "nan", "NaN", "NA", "N/A", "n/a", "NULL", "null", "None",
            "<NA>", "#N/A", "#NA", "-nan", "-NaN"}

ReadText(t) == IF t \in NaTexts THEN NaN ELSE Some(t)

\* Series.astype(str) on a column of texts: NaN becomes the text "nan".
AsStr(c) == IF isna(c) THEN "nan" ELSE Val(c)

----------------------------------------------------------------------------
(* Dates.  A raw date cell is one of                                       *)
(*   iso    "YYYY-MM-DD"        slash  "YYYY/MM/DD"                        *)
(*   millis an integer of epoch milliseconds (secs * 1000)                 *)
(*   text   a text that is no date        empty  an empty cell             *)
(* A parsed date is the number of days since 1970-01-01.                   *)

Iso(y, m, d) == [kind |-> "iso", y |-> y, m |-> m, d |-> d, secs |-> 0]

Slash(y, m, d) == [kind |-> "slash", y |-> y, m |-> m, d |-> d, secs |-> 0]

Millis(s) == [kind |-> "millis", y |-> 0, m |-> 0, d |-> 0, secs |-> s]

BadText == [kind |-> "text", y |-> 0, m |-> 0, d |-> 0, secs |-> 0]

EmptyCell == [kind |-> "empty", y |-> 0, m |-> 0, d |-> 0, secs |-> 0]

SecondsPerDay == 24 * 60 * 60

\* Proleptic Gregorian calendar: days from 1970-01-01 to y-m-d.
DaysFromCivil(y, m, d) ==
    LET yy  == IF m <= 2 THEN y - 1 ELSE y
        era == yy \div 400
        yoe == yy - era * 400
        mp  == IF m > 2 THEN m - 3 ELSE m + 9
        doy == (153 * mp + 2) \div 5 + d - 1
        doe == yoe * 365 + yoe \div 4 - yoe \div 100 + doy
    IN  era * 146097 + doe - 719468

\* The raw cells of a column are all numbers (or empty): read_csv gives the
\* column a numeric dtype; otherwise the column holds texts.
NumericColumn(cells) == \A c \in cells : c.kind \in {"millis", "empty"}

\* pd.to_datetime(column, errors='coerce').dt.date, one cell.  A calendar
\* text parses to its date.  A number is taken as NANOSECONDS since the
\* epoch (no unit is given): secs * 1000 ns is secs \div 10^6 seconds.  A text
\* of digits in a text column is no calendar text and is coerced to NaT.
ToDatetimeCoerceDate(c, numeric) ==
    CASE c.kind = "iso"    -> Some(DaysFromCivil(c.y, c.m, c.d))
      [] c.kind = "slash"  -> Some(DaysFromCivil(c.y, c.m, c.d))
      [] c.kind = "millis" -> IF numeric
                              THEN Some((c.secs \div 1000000) \div SecondsPerDay)
                              ELSE NaN
      [] OTHER             -> NaN

\* millis_to_datetime(col): col.astype('float64') raises ValueError when a cell
\* is a text that is no number.
MillisRaises(cells) == \E c \in cells : c.kind \in {"iso", "slash", "text"}

\* millis_to_datetime(col).dt.date, one cell of a column that did not raise:
\* value / 1000 seconds since the epoch.
millis_to_datetime(c) ==
    IF c.kind = "millis" THEN Some(c.secs \div SecondsPerDay) ELSE NaN

----------------------------------------------------------------------------
(* The uploaded license files.  A raw row holds the cells as read_csv sees  *)
(* them: texts for user_id and device_id, numbers (or nothing) for          *)
(* lesson_id, playback_minutes and quality, a raw date cell.  A file names  *)
(* the columns it has; the cells of a column the file lacks are ignored.    *)

LicenseRow(i, dt, u, dv, l, pm, q) ==
    [idx |-> i, date |-> dt, user_id |-> u, device_id |-> dv, lesson_id |-> l,
     playback_minutes |-> pm, quality |-> q]

BaseColumns == {"date", "user_id", "device_id", "lesson_id"}

\* Every table of at most MaxRows rows over a small domain of cells.
SmallDates == <<Iso(Year, 9, 12), EmptyCell>>

SmallUsers == <<"u1", "u2", "nan">>

SmallDevices == <<"d1", "">>

SmallLessons == <<Some(1), Some(2), NaN>>

SmallRowCount == Len(SmallDates) * Len(SmallUsers) * Len(SmallDevices) * Len(SmallLessons)

SmallRow(k, i) ==
    LicenseRow(i,
               SmallDates[(k % 2) + 1],
               SmallUsers[((k \div 2) % 3) + 1],
               SmallDevices[((k \div 6) % 2) + 1],
               SmallLessons[((k \div 12) % 3) + 1],
               NaN, NaN)

SmallCodes ==
    {s \in UNION {[1..n -> 0..(SmallRowCount - 1)] : n \in 0..MaxRows} :
        \A i \in DOMAIN s : \A j \in DOMAIN s : i < j => s[i] <= s[j]}

SmallLicense ==
    {[columns |-> BaseColumns, rows |-> {SmallRow(s[i], i) : i \in DOMAIN s}] :
        s \in SmallCodes}

\* Tables whose date column is written in one encoding, for the days
\* 11..14 September, some with a cell that is no date.  (A file exports its
\* dates in one format; a column that mixes formats, or numbers with texts,
\* is parsed differently by different pandas releases and is not fed in.)
DateOf(enc, d) ==
    CASE enc = "iso"   -> Iso(Year, 9, d)
      [] enc = "slash" -> Slash(Year, 9, d)
      [] OTHER         -> Millis(DaysFromCivil(Year, 9, d) * SecondsPerDay + 3600 * d)

DateRows(cells) ==
    {LicenseRow(i, cells[i], "u1", "d1", Some(i), NaN, NaN) : i \in DOMAIN cells}

DateLicense ==
    {[columns |-> BaseColumns, rows |-> DateRows(<<DateOf(enc, 12), BadText>>)] :
        enc \in {"iso", "slash"}}
    \cup UNION {
        {[columns |-> BaseColumns,
          rows |-> DateRows(<<DateOf(enc, 11), DateOf(enc, 12), DateOf(enc, 13), DateOf(enc, 14)>>)],
         [columns |-> BaseColumns, rows |-> DateRows(<<DateOf(enc, 13), EmptyCell>>)],
         [columns |-> (BaseColumns \ {"date"}) \cup {"created_on"},
          rows |-> DateRows(<<DateOf(enc, 12), DateOf(enc, 14)>>)],
         [columns |-> BaseColumns \ {"date"},
          rows |-> DateRows(<<DateOf(enc, 12)>>)]}
        : enc \in {"iso", "slash", "millis"}}

\* Thresholds and caps of the script.
RepeatThreshold == 10

CapVideos == 200

CapDevices == 5

CapDays == 30

CapHours == 50

CapOver90 == 100

DeviceNames == <<"d1", "d2", "d3", "d4", "d5", "d6", "d7", "d8", "d9">>

\* Tables around the repeat threshold: user u1 sees lessons 1..a on the 12th
\* (split over two devices) and lessons 1..b on the 13th (two of them
\* twice); user u2 sees three lessons; optionally rows without a user.
RepeatRows(a, b, nullUser) ==
    {LicenseRow(l, Iso(Year, 9, 12), "u1", IF l <= 5 THEN "d1" ELSE "d2",
                Some(l), NaN, NaN) : l \in 1..a}
    \cup {LicenseRow(100 + l, Iso(Year, 9, 13), "u1", "d1", Some(l), NaN, NaN) : l \in 1..b}
    \cup {LicenseRow(200 + l, Iso(Year, 9, 13), "u1", "d1", Some(l), NaN, NaN) : l \in 1..2}
    \cup {LicenseRow(300 + l, Iso(Year, 9, 13), "u2", "d1", Some(l), NaN, NaN) : l \in 1..3}
    \cup (IF nullUser
          THEN {LicenseRow(400 + l, Iso(Year, 9, 12), "", "d1", Some(l), NaN, NaN) :
                    l \in 1..(RepeatThreshold + 1)}
          ELSE {})

\* One user with 5, 12, 15 and 8 distinct lessons on four days.
FourDayRows ==
    LET n == <<5, 12, 15, 8>>
    IN  UNION {{LicenseRow(100 * k + l, Iso(Year, 9, 10 + k), "u1", "d1", Some(l), NaN, NaN) :
                    l \in 1..n[k]} : k \in 1..4}

RepeatLicense ==
    {[columns |-> BaseColumns, rows |-> RepeatRows(a, b, nu)] :
        a \in (RepeatThreshold - 1)..(RepeatThreshold + MaxOver),
        b \in (RepeatThreshold - 1)..(RepeatThreshold + MaxOver),
        nu \in BOOLEAN}
    \cup {[columns |-> BaseColumns, rows |-> FourDayRows]}

\* Tables around the caps of the risk radar: user u1 with nV lessons over
\* nDev devices and nDays days, `minutes` playback minutes per row and a
\* quality value on the first nQ rows; one row of user u2.
RiskRows(nV, nDev, nDays, minutes, nQ) ==
    {LicenseRow(i,
                Iso(Year, ((i % nDays) % 12) + 1, ((i % nDays) \div 12) + 1),
                "u1", DeviceNames[(i % nDev) + 1], Some(i), Some(minutes),
                IF i <= nQ THEN Some(95) ELSE NaN) : i \in 1..nV}
    \cup {LicenseRow(0, Iso(Year, 9, 12), "u2", "d1", Some(1), Some(minutes), Some(95))}

RiskLicense ==
    {[columns |-> BaseColumns \cup extra,
      rows |-> RiskRows(CapVideos + k, CapDevices + k, CapDays + k, 15, CapOver90 + k)] :
        k \in {-1, 0, MaxOver},
        extra \in {{}, {"playback_minutes"}, {"playback_minutes", "quality"}}}
    \cup {[columns |-> BaseColumns \cup {"playback_minutes"},
           rows |-> RiskRows(500, 3, 10, 1, 10)]}

LicenseFiles == SmallLicense \cup DateLicense \cup RepeatLicense \cup RiskLicense

BasicLicense ==
    [columns |-> BaseColumns,
     rows |-> {LicenseRow(1, Iso(Year, 9, 12), "u1", "d1", Some(1), NaN, NaN),
               LicenseRow(2, Iso(Year, 9, 14), "u2", "d1", Some(2), NaN, NaN)}]

----------------------------------------------------------------------------
(* The uploaded video_meta files. *)

MetaRow(i, l, t) == [idx |-> i, lesson_id |-> l, _subject_title |-> t]

MetaColumns == {"lesson_id", "_subject_title"}

FullMeta ==
    [columns |-> MetaColumns,
     rows |-> {MetaRow(1, Some(1), "Physiology"), MetaRow(2, Some(1), "Anatomy"),
               MetaRow(3, Some(1), "Anatomy"), MetaRow(4, Some(2), ""),
               MetaRow(5, NaN, "Surgery")}]

MetaFiles ==
    {FullMeta,
     [columns |-> {"_subject_title"}, rows |-> {MetaRow(1, NaN, "Anatomy")}]}

\* Subject titles in alphabetical order (the order sorted() gives them).
SubjectTitles == <<"Anatomy", "Physiology", "Surgery">>

----------------------------------------------------------------------------
(* Texts that are searched or stripped are sequences of characters. *)

Numberint == <<"n", "u", "m", "b", "e", "r", "i", "n", "t">>

One == <<"1">>

\* "{numberint=<digits>}"
Wrapped(digits) == <<"{">> \o Numberint \o <<"=">> \o digits \o <<"}">>

\* '{"$numberInt":"<digits>"}'
Bson(digits) ==
    <<"{", "\"", "$", "n", "u", "m", "b", "e", "r", "I", "n", "t", "\"", ":", "\"">>
    \o digits \o <<"\"", "}">>

IsDigit(ch) == ch \in {"0", "1", "2", "3", "4", "5", "6", "7", "8", "9"}

IsNumberText(t) == Len(t) > 0 /\ \A i \in DOMAIN t : IsDigit(t[i])

\* `sub in text` of Python.
Contains(text, sub) ==
    \E i \in 0..(Len(text) - Len(sub)) :
        \A j \in 1..Len(sub) : text[i + j] = sub[j]

\* text.strip()
RECURSIVE LStrip(_)
LStrip(t) == IF t # <<>> /\ Head(t) = " " THEN LStrip(Tail(t)) ELSE t

RECURSIVE RStrip(_)
RStrip(t) ==
    IF t # <<>> /\ t[Len(t)] = " " THEN RStrip(SubSeq(t, 1, Len(t) - 1)) ELSE t

Strip(t) == RStrip(LStrip(t))

----------------------------------------------------------------------------
(* The uploaded lesson_test_submissions files. *)

LessonRow(i, u, dv, cid, ct, cst, so, cm) ==
    [idx |-> i, user_id |-> u, device_id |-> dv, content_id |-> cid,
     content_type |-> ct, content_sub_type |-> cst, submitted_on |-> so,
     custom_module_id |-> cm]

LessonColumns ==
    {"user_id", "device_id", "content_id", "content_type", "content_sub_type",
     "submitted_on"}

SubTypeTexts ==
    <<<<>>, One, <<"1", "0">>, <<"2", "1">>, <<"2">>, Wrapped(One),
      Wrapped(<<"1", "0">>), Wrapped(<<"2">>), Bson(One), <<"a", "b", "c">>>>

ContentTypes == <<"lesson", "test", "other">>

SubRowCount == Len(SubTypeTexts) * Len(ContentTypes)

SubRow(k, i) ==
    LessonRow(i, "u1", "d1", IF i = 1 THEN "c1" ELSE "c2",
              ContentTypes[(k % 3) + 1], SubTypeTexts[(k \div 3) + 1],
              Millis(DaysFromCivil(Year, 9, 12) * SecondsPerDay + 60), NaN)

SubCodes ==
    {s \in UNION {[1..n -> 0..(SubRowCount - 1)] : n \in 1..MaxSubRows} :
        \A i \in DOMAIN s : \A j \in DOMAIN s : i < j => s[i] <= s[j]}

SubTypeLessons ==
    {[columns |-> LessonColumns, rows |-> {SubRow(s[i], i) : i \in DOMAIN s}] :
        s \in SubCodes}

\* Tables that vary the key and the date of the submissions.
KeyRows(so1, so2, u2, cm) ==
    {LessonRow(1, "u1", "d1", "c1", "test", <<>>, so1, Some(7)),
     LessonRow(2, "u1", "d1", "c1", "test", <<>>, so1, Some(8)),
     LessonRow(3, u2, "", "c2", "lesson", One, so2, cm),
     LessonRow(4, u2, "", "c3", "lesson", One, so2, NaN)}

SubmittedCells ==
    {Millis(DaysFromCivil(Year, 9, 12) * SecondsPerDay + 60),
     Millis(DaysFromCivil(Year, 9, 14) * SecondsPerDay),
     Iso(Year, 9, 12), BadText, EmptyCell}

KeyLessons ==
    {[columns |-> LessonColumns \cup extra,
      rows |-> KeyRows(Millis(DaysFromCivil(Year, 9, 13) * SecondsPerDay), so2, u2, Some(9))] :
        so2 \in SubmittedCells, u2 \in {"u2", "nan"},
        extra \in {{}, {"custom_module_id"}}}
    \cup {[columns |-> LessonColumns \ {"submitted_on"},
           rows |-> KeyRows(EmptyCell, EmptyCell, "u2", NaN)],
          [columns |-> LessonColumns, rows |-> {}]}

LessonFiles == SubTypeLessons \cup KeyLessons

----------------------------------------------------------------------------
(* The uploaded suspicious_activity_logs files. *)

SuspRow(i, u, co, msg) == [idx |-> i, user_id |-> u, created_on |-> co, message |-> msg]

SuspColumns == {"created_on", "user_id", "x_real_ip", "message"}

SuspFiles ==
    {[columns |-> SuspColumns,
      rows |-> {SuspRow(1, "u1", Iso(Year, 9, 12), "vpn"),
                SuspRow(2, "u2", Iso(Year, 9, 20), "many devices"),
                SuspRow(3, "", BadText, "no user")}]}

----------------------------------------------------------------------------
(* Reading the files (src/app.py lines 52-106). *)

\* The column the license dates are taken from: 'date', else 'created_on'.
DateColumn(f) ==
    IF "date" \in f.columns THEN "date"
    ELSE IF "created_on" \in f.columns THEN "created_on"
    ELSE ""

\* A cell of column c of file f; a column the file lacks is all NaN.
Cell(f, c, v) == IF c \in f.columns THEN v ELSE NaN

ReadLicenseFrame(f) ==
    LET numeric == NumericColumn({r.date : r \in f.rows})
    IN  [columns |-> f.columns \cup {"date_parsed", "user_id", "device_id",
                                     "lesson_id", "edition", "ip", "x_real_ip"},
         lesson_float |-> \/ "lesson_id" \notin f.columns
                          \/ \E r \in f.rows : isna(r.lesson_id),
         rows |-> {[idx |-> r.idx,
                    date |-> r.date,
                    date_parsed |-> IF DateColumn(f) = "" THEN NaN
                                    ELSE ToDatetimeCoerceDate(r.date, numeric),
                    user_id |-> Cell(f, "user_id", ReadText(r.user_id)),
                    device_id |-> Cell(f, "device_id", ReadText(r.device_id)),
                    lesson_id |-> Cell(f, "lesson_id", r.lesson_id),
                    playback_minutes |-> Cell(f, "playback_minutes", r.playback_minutes),
                    quality |-> Cell(f, "quality", r.quality)] : r \in f.rows}]

\* The dtype read_csv gives the content_sub_type column.
SubTypeDtype(texts) ==
    IF \E t \in texts : t # <<>> /\ ~IsNumberText(t) THEN "object"
    ELSE IF <<>> \in texts THEN "float64"
    ELSE "int64"

SubTypeCell(t, dtype) == IF t = <<>> THEN NaN ELSE Some([dtype |-> dtype, text |-> t])

\* str(x) of a content_sub_type cell.
PyStr(x) ==
    IF isna(x) THEN <<"n", "a", "n">>
    ELSE IF Val(x).dtype = "float64" THEN Val(x).text \o <<".", "0">>
    ELSE Val(x).text

LessonRaises(f) ==
    "submitted_on" \in f.columns /\ MillisRaises({r.submitted_on : r \in f.rows})

ReadLessonFrame(f) ==
    LET dtype == SubTypeDtype({r.content_sub_type : r \in f.rows})
    IN  [columns |-> f.columns \cup {"submitted_on_dt", "submit_date"},
         rows |-> {[idx |-> r.idx,
                    user_id |-> ReadText(r.user_id),
                    device_id |-> ReadText(r.device_id),
                    content_id |-> ReadText(r.content_id),
                    content_type |-> ReadText(r.content_type),
                    content_sub_type |-> SubTypeCell(r.content_sub_type, dtype),
                    submitted_on |-> r.submitted_on,
                    submit_date |-> IF "submitted_on" \in f.columns
                                    THEN millis_to_datetime(r.submitted_on)
                                    ELSE NaN,
                    custom_module_id |-> Cell(f, "custom_module_id", r.custom_module_id)] :
                        r \in f.rows}]

ReadMetaFrame(f) ==
    [columns |-> f.columns,
     rows |-> {[idx |-> r.idx,
                lesson_id |-> Cell(f, "lesson_id", r.lesson_id),
                _subject_title |-> Cell(f, "_subject_title", ReadText(r._subject_title))] :
                    r \in f.rows}]

ReadSuspFrame(f) ==
    [columns |-> f.columns,
     rows |-> {[idx |-> r.idx,
                user_id |-> ReadText(r.user_id),
                created_on |-> r.created_on,
                message |-> r.message] : r \in f.rows}]

----------------------------------------------------------------------------
(* Sidebar filters (src/app.py lines 119-140). *)

\* The users offered by the select boxes.
UserList(lic, les) ==
    LET fromLicense == {AsStr(r.user_id) : r \in {x \in lic.rows : notna(x.user_id)}}
        fromLesson  == IF empty(les) THEN {}
                       ELSE {AsStr(r.user_id) : r \in {x \in les.rows : notna(x.user_id)}}
    IN  {u \in fromLicense \cup fromLesson : u # "" /\ u # "nan"}

\* column >= d and column <= d on a column of dates: a NaT cell compares False.
DateGe(c, d) == notna(c) /\ Val(c) >= d

DateLe(c, d) == notna(c) /\ Val(c) <= d

InRangeOpenEnd(c, dr) == DateGe(c, dr[1]) /\ notna(c) /\ Val(c) < dr[2]

InRange(c, dr) == DateGe(c, dr[1]) /\ DateLe(c, dr[2])

DateFiltered(df, dr) ==
    IF Len(dr) = 2
    THEN [df EXCEPT !.rows = {r \in df.rows : InRange(r.date_parsed, dr)}]
    ELSE df

UserFiltered(df, uf) ==
    IF uf # ""
    THEN [df EXCEPT !.rows = {r \in df.rows : AsStr(r.user_id) = uf}]
    ELSE df

----------------------------------------------------------------------------
(* License roll-ups per device and day (src/app.py lines 148-181). *)

Key(r) == <<r.date_parsed, r.user_id, r.device_id>>

\* The groups of groupby(keys, dropna=False) and of groupby(keys).
KeysWithNull(rows) == {Key(r) : r \in rows}

KeysNoNull(rows) == {k \in KeysWithNull(rows) : \A i \in 1..3 : notna(k[i])}

\* astype(str) of a lesson id: the column is float64 when it has a NaN.
LessonText(n, isFloat) == IF isFloat THEN ToString(n) \o ".0" ELSE ToString(n)

\* s.dropna().astype(str).nunique()
\* a count of the cells instead of the distinct values
CountedLessons(rows, isFloat) == Cardinality({r \in rows : notna(r.lesson_id)})

DistinctLessons(rows, isFloat) ==
    Cardinality({LessonText(Val(r.lesson_id), isFloat) :
                    r \in {x \in rows : notna(x.lesson_id)}})

\* ('lesson_id', 'count'): the cells of the group that are not NaN.
CountLessons(rows) == Cardinality({r \in rows : notna(r.lesson_id)})

RowCount(rows) == Cardinality(rows)

LicenseRollup(lf) ==
    {[idx |-> k, date_parsed |-> k[1], user_id |-> k[2], device_id |-> k[3],
      videos_hit_license |-> DistinctLessons({r \in lf.rows : Key(r) = k}, lf.lesson_float),
      total_rows |-> CountLessons({r \in lf.rows : Key(r) = k})] :
        k \in KeysWithNull(lf.rows)}

\* meta[['lesson_id','_subject_title']].drop_duplicates()
MetaSmall(m) == {<<r.lesson_id, r._subject_title>> : r \in m.rows}

\* The subject titles joined to one license row (left join on lesson_id; a
\* NaN key matches a NaN key); {NaN} when nothing matches.
TitlesOf(r, m) ==
    LET hit == {p \in MetaSmall(m) : p[1] = r.lesson_id}
    IN  IF hit = {} THEN {NaN} ELSE {p[2] : p \in hit}

\* ', '.join(sorted(set(...))): the titles in alphabetical order.
SortedTitles(S) == SelectSeq(SubjectTitles, LAMBDA t : t \in S)

SubjRollup(lf, m) ==
    {[idx |-> k, date_parsed |-> k[1], user_id |-> k[2], device_id |-> k[3],
      subjects_per_device |->
          Some(SortedTitles({Val(t) : t \in {x \in UNION {TitlesOf(r, m) :
                                 r \in {y \in lf.rows : Key(y) = k}} : notna(x)}}))] :
        k \in KeysNoNull(lf.rows)}

HasSubjects(m) == ~empty(m) /\ "lesson_id" \in m.columns

\* groupby(['date_parsed','user_id']) of the repeat count: NaN keys dropped.
UserRepeat(lf) ==
    LET keys == {<<r.date_parsed, r.user_id>> :
                    r \in {x \in lf.rows : notna(x.date_parsed) /\ notna(x.user_id)}}
    IN  {[date_parsed |-> k[1], user_id |-> k[2],
          distinct_lessons_per_date |->
              DistinctLessons({r \in lf.rows : r.date_parsed = k[1] /\ r.user_id = k[2]},
                              lf.lesson_float)] : k \in keys}

OverThresholdInclusive(n) == n >= RepeatThreshold

OverThreshold(n) == n > RepeatThreshold

\* one row per flagged (user, date) instead of one row per user
UserRepeatFlagPerDate(lf) ==
    {[idx |-> <<x.date_parsed, x.user_id>>, user_id |-> x.user_id,
      repeat_count_dates_gt_10 |-> 1] :
        x \in {y \in UserRepeat(lf) : OverThreshold(y.distinct_lessons_per_date)}}

UserRepeatFlag(lf) ==
    LET flagged == {x \in UserRepeat(lf) : OverThreshold(x.distinct_lessons_per_date)}
    IN  {[idx |-> u, user_id |-> u,
          repeat_count_dates_gt_10 |->
              Cardinality({x.date_parsed : x \in {y \in flagged : y.user_id = u}})] :
            u \in {x.user_id : x \in flagged}}

\* A row that stands for "no match" on the right side of a left join.
NoMatch == [idx |-> NaN]

\* left.merge(right, on=[...], how='left'): the right rows joined to row l.
MatchOnUser(l, right) ==
    LET hit == {x \in right : x.user_id = l.user_id}
    IN  IF hit = {} THEN {NoMatch} ELSE hit

MatchOnKey(l, right) ==
    LET hit == {x \in right : Key(x) = Key(l)}
    IN  IF hit = {} THEN {NoMatch} ELSE hit

\* The summary table: the license roll-up, left-joined with the subject
\* roll-up on the key and with the repeat count on user_id; the repeat count
\* of a row without a match is filled with 0.
LicenseAgg(lf, m) ==
    LET subj == SubjRollup(lf, m)
        flag == UserRepeatFlag(lf)
    IN  UNION {
          {[idx |-> <<l.idx, s.idx, u.idx>>,
            date_parsed |-> l.date_parsed,
            user_id |-> l.user_id,
            device_id |-> l.device_id,
            videos_hit_license |-> l.videos_hit_license,
            total_rows |-> l.total_rows,
            subjects_per_device |->
                IF ~HasSubjects(m) THEN Some(<<>>)
                ELSE IF s = NoMatch THEN NaN
                ELSE s.subjects_per_device,
            repeat_count_dates_gt_10 |->
                IF u = NoMatch THEN 0 ELSE u.repeat_count_dates_gt_10] :
              s \in IF HasSubjects(m) THEN MatchOnKey(l, subj) ELSE {NoMatch},
              u \in MatchOnUser(l, flag)} :
          l \in LicenseRollup(lf)}

----------------------------------------------------------------------------
(* Submission roll-up (src/app.py lines 194-227). *)

sub_type_is_one(x) ==
    IF notna(x) /\ Val(x).dtype = "object" /\ Contains(Val(x).text, Numberint)
    THEN Contains(Val(x).text, One)
    ELSE Strip(PyStr(x)) \in {One, Wrapped(One)}

is_qbank(r) == r.content_type = Some("lesson") /\ sub_type_is_one(r.content_sub_type)

is_test(r) == r.content_type = Some("test") /\ isna(r.content_sub_type)

SubKey(r) == <<r.submit_date, r.user_id, r.device_id>>

\* s[mask].dropna().nunique() over the content_id of a group.
DistinctContent(rows) ==
    Cardinality({r.content_id : r \in {x \in rows : notna(x.content_id)}})

\* cm_agg: groupby(keys) drops the groups with a NaN key.
CmAgg(les) ==
    {[idx |-> k,
      cm_submits |-> Cardinality({r.custom_module_id :
                        r \in {x \in les.rows : SubKey(x) = k /\ notna(x.custom_module_id)}})] :
        k \in {q \in {SubKey(r) : r \in les.rows} : \A i \in 1..3 : notna(q[i])}}

QbAgg(les) ==
    {[idx |-> k, submit_date |-> k[1], user_id |-> k[2], device_id |-> k[3],
      qbank_submits |-> DistinctContent({r \in les.rows : SubKey(r) = k /\ is_qbank(r)}),
      test_submits |-> DistinctContent({r \in les.rows : SubKey(r) = k /\ is_test(r)}),
      cm_submits |->
          IF "custom_module_id" \in les.columns
          THEN LET hit == {c \in CmAgg(les) : c.idx = k}
               IN  IF hit = {} THEN NaN ELSE Some((CHOOSE c \in hit : TRUE).cm_submits)
          ELSE Some(0)] :
        k \in {SubKey(r) : r \in les.rows}}

----------------------------------------------------------------------------
(* Suspicious logs and drill-down (src/app.py lines 232-250). *)

SuspShown(sp) ==
    {[idx |-> r.idx,
      created_on_dt |-> ToDatetimeCoerceDate(r.created_on,
                                             NumericColumn({x.created_on : x \in sp.rows})),
      user_id |-> r.user_id, message |-> r.message] : r \in sp.rows}

OfUser(rows, u) == {r \in rows : AsStr(r.user_id) = u}

NoViews == [lf |-> {}, qf |-> {}, sf |-> {}]

----------------------------------------------------------------------------
(* Risk radar (src/app.py lines 273-285).  A factor is a fraction <<n, d>>. *)

RatLe(a, b) == a[1] * b[2] <= b[1] * a[2]

RatMin(a, b) == IF RatLe(a, b) THEN a ELSE b

Unclamped(raw, cap) == <<raw, cap>>

\* min(raw / cap, 1)
Clamp(raw, cap) == RatMin(<<raw, cap>>, <<1, 1>>)

RECURSIVE SumMinutes(_)
SumMinutes(rows) ==
    IF rows = {} THEN 0
    ELSE LET r == CHOOSE x \in rows : TRUE
         IN  (IF notna(r.playback_minutes) THEN Val(r.playback_minutes) ELSE 0)
             + SumMinutes(rows \ {r})

RiskVals(lic, u) ==
    LET ua == OfUser(lic.rows, u)
        total_videos == DistinctLessons(ua, lic.lesson_float)
        devices == Cardinality({r.device_id : r \in {x \in ua : notna(x.device_id)}})
        days_active == Cardinality({r.date_parsed : r \in {x \in ua : notna(x.date_parsed)}})
        \* hours_est = minutes / 60, as the fraction <<minutes, 60>>
        minutes == IF "playback_minutes" \in lic.columns THEN SumMinutes(ua) ELSE 0
        over90 == IF "quality" \in lic.columns
                  THEN Cardinality({r \in ua : notna(r.quality)})
                  ELSE 0
    IN  <<Clamp(total_videos, CapVideos), Clamp(devices, CapDevices),
          Clamp(days_active, CapDays), Clamp(minutes, 60 * CapHours),
          Clamp(over90, CapOver90)>>

----------------------------------------------------------------------------
(* What the person at the dashboard does. *)

\* Files put into the four uploaders: every license table with and without a
\* meta table, every submission table with and without a license table, and
\* the submission tables that vary the key also with and without the logs.
UploadCombos ==
    {<<Some(l), NoFile, m, NoFile>> :
        l \in SmallLicense, m \in {NoFile, Some(FullMeta)}}
    \cup {<<Some(l), NoFile, m, NoFile>> :
        l \in DateLicense \cup RepeatLicense \cup RiskLicense,
        m \in {NoFile} \cup {Some(x) : x \in MetaFiles}}
    \cup {<<l, Some(s), NoFile, NoFile>> :
        l \in {NoFile, Some(BasicLicense)},
        s \in SubTypeLessons}
    \cup {<<l, Some(s), NoFile, sp>> :
        l \in {NoFile, Some(BasicLicense)},
        s \in KeyLessons,
        sp \in {NoFile} \cup {Some(x) : x \in SuspFiles}}

\* Values of the date-range widget: a single date (no range yet) or a range.
DateRanges ==
    {<<DaysFromCivil(Year, 9, 12)>>,
     <<DaysFromCivil(Year, 9, 12), DaysFromCivil(Year, 9, 13)>>}

\* Texts typed into the "User ID" box.
TypedUsers == {"", "nan"}

----------------------------------------------------------------------------
(* The script. *)

Init ==
    /\ pc = "start"
    /\ err = ""
    /\ f_license = NoFile
    /\ f_lesson = NoFile
    /\ f_meta = NoFile
    /\ f_susp = NoFile
    /\ license_df = EmptyFrame
    /\ ldf = EmptyFrame
    /\ meta = EmptyFrame
    /\ susp = EmptyFrame
    /\ date_range = <<>>
    /\ user_filter = ""
    /\ user_list = {}
    /\ license_filtered = EmptyFrame
    /\ license_agg = {}
    /\ selected_user = ""
    /\ qb_agg = {}
    /\ susp_shown = {}
    /\ views = NoViews
    /\ vals = <<>>

\* lines 42-50: the uploaders
Upload ==
    /\ pc = "start"
    /\ \E c \in UploadCombos :
          /\ f_license' = c[1]
          /\ f_lesson' = c[2]
          /\ f_meta' = c[3]
          /\ f_susp' = c[4]
    /\ pc' = "read_license"
    /\ UNCHANGED <<err, license_df, ldf, meta, susp, date_range, user_filter,
                   user_list, license_filtered, license_agg, selected_user,
                   qb_agg, susp_shown, views, vals>>

\* lines 52-78: st.stop() without a license file, else read and normalise it
ReadLicense ==
    /\ pc = "read_license"
    /\ IF f_license = NoFile
       THEN /\ pc' = "stopped"
            /\ UNCHANGED license_df
       ELSE /\ pc' = "read_lesson"
            /\ license_df' = ReadLicenseFrame(Val(f_license))
    /\ UNCHANGED <<err, f_license, f_lesson, f_meta, f_susp, ldf, meta, susp,
                   date_range, user_filter, user_list, license_filtered,
                   license_agg, selected_user, qb_agg, susp_shown, views, vals>>

\* lines 80-92: read the submissions; astype('float64') may raise
ReadLesson ==
    /\ pc = "read_lesson"
    /\ IF f_lesson = NoFile
       THEN /\ ldf' = EmptyFrame
            /\ pc' = "read_tables"
            /\ UNCHANGED err
       ELSE IF LessonRaises(Val(f_lesson))
       THEN /\ pc' = "raised"
            /\ err' = "ValueError"
            /\ UNCHANGED ldf
       ELSE /\ ldf' = ReadLessonFrame(Val(f_lesson))
            /\ pc' = "read_tables"
            /\ UNCHANGED err
    /\ UNCHANGED <<f_license, f_lesson, f_meta, f_susp, license_df, meta, susp,
                   date_range, user_filter, user_list, license_filtered,
                   license_agg, selected_user, qb_agg, susp_shown, views, vals>>

\* lines 94-106: read the meta table and the suspicious logs
ReadTables ==
    /\ pc = "read_tables"
    /\ meta' = IF f_meta = NoFile THEN EmptyFrame ELSE ReadMetaFrame(Val(f_meta))
    /\ susp' = IF f_susp = NoFile THEN EmptyFrame ELSE ReadSuspFrame(Val(f_susp))
    /\ pc' = "filters"
    /\ UNCHANGED <<err, f_license, f_lesson, f_meta, f_susp, license_df, ldf,
                   date_range, user_filter, user_list, license_filtered,
                   license_agg, selected_user, qb_agg, susp_shown, views, vals>>

\* lines 111-140: the sidebar widgets, then the date and the user filter.
\* date_range is what the date widget returns; the default the widget shows
\* (the smallest and largest parsed date) is not part of the model.
SidebarFilters ==
    /\ pc = "filters"
    /\ user_list' = UserList(license_df, ldf)
    /\ \E dr \in DateRanges, typed \in TypedUsers, user_select \in {""} \cup user_list' :
          /\ date_range' = dr
          /\ user_filter' = IF user_select # "" THEN user_select ELSE typed
    /\ license_filtered' = UserFiltered(DateFiltered(license_df, date_range'), user_filter')
    /\ pc' = "license_agg"
    /\ UNCHANGED <<err, f_license, f_lesson, f_meta, f_susp, license_df, ldf, meta,
                   susp, license_agg, selected_user, qb_agg, susp_shown, views, vals>>

\* lines 148-181: the summary per device and day
LicenseSummary ==
    /\ pc = "license_agg"
    /\ license_agg' = LicenseAgg(license_filtered, meta)
    /\ pc' = "select_user"
    /\ UNCHANGED <<err, f_license, f_lesson, f_meta, f_susp, license_df, ldf, meta,
                   susp, date_range, user_filter, user_list, license_filtered,
                   selected_user, qb_agg, susp_shown, views, vals>>

\* lines 186-188: the select box under the summary
SelectUser ==
    /\ pc = "select_user"
    /\ \E clicked_user \in {""} \cup user_list : selected_user' = clicked_user
    /\ pc' = "lesson_agg"
    /\ UNCHANGED <<err, f_license, f_lesson, f_meta, f_susp, license_df, ldf, meta,
                   susp, date_range, user_filter, user_list, license_filtered,
                   license_agg, qb_agg, susp_shown, views, vals>>

\* lines 194-227: the submission roll-up, when a submission table is there
LessonSummary ==
    /\ pc = "lesson_agg"
    /\ qb_agg' = IF empty(ldf) THEN {} ELSE QbAgg(ldf)
    /\ pc' = "susp"
    /\ UNCHANGED <<err, f_license, f_lesson, f_meta, f_susp, license_df, ldf, meta,
                   susp, date_range, user_filter, user_list, license_filtered,
                   license_agg, selected_user, susp_shown, views, vals>>

\* lines 232-237: the suspicious logs, as they are
SuspiciousLogs ==
    /\ pc = "susp"
    /\ susp_shown' = IF empty(susp) THEN {} ELSE SuspShown(susp)
    /\ pc' = "cross_filter"
    /\ UNCHANGED <<err, f_license, f_lesson, f_meta, f_susp, license_df, ldf, meta,
                   susp, date_range, user_filter, user_list, license_filtered,
                   license_agg, selected_user, qb_agg, views, vals>>

\* lines 242-250: the three tables of the selected user
CrossFilter ==
    /\ pc = "cross_filter"
    /\ views' = IF selected_user # ""
                THEN [lf |-> OfUser(license_agg, selected_user),
                      qf |-> IF empty(ldf) THEN {} ELSE OfUser(qb_agg, selected_user),
                      sf |-> IF empty(susp) THEN {} ELSE OfUser(susp.rows, selected_user)]
                ELSE NoViews
    /\ pc' = "risk"
    /\ UNCHANGED <<err, f_license, f_lesson, f_meta, f_susp, license_df, ldf, meta,
                   susp, date_range, user_filter, user_list, license_filtered,
                   license_agg, selected_user, qb_agg, susp_shown, vals>>

\* lines 273-285: the risk radar of the selected user
RiskRadar ==
    /\ pc = "risk"
    /\ vals' = IF selected_user # "" /\ OfUser(license_df.rows, selected_user) # {}
               THEN RiskVals(license_df, selected_user)
               ELSE <<>>
    /\ pc' = "done"
    /\ UNCHANGED <<err, f_license, f_lesson, f_meta, f_susp, license_df, ldf, meta,
                   susp, date_range, user_filter, user_list, license_filtered,
                   license_agg, selected_user, qb_agg, susp_shown, views>>

Next ==
    \/ Upload
    \/ ReadLicense
    \/ ReadLesson
    \/ ReadTables
    \/ SidebarFilters
    \/ LicenseSummary
    \/ SelectUser
    \/ LessonSummary
    \/ SuspiciousLogs
    \/ CrossFilter
    \/ RiskRadar

Spec == Init /\ [][Next]_vars

----------------------------------------------------------------------------
(* Properties. *)

AfterFilters ==
    pc \in {"license_agg", "select_user", "lesson_agg", "susp", "cross_filter",
            "risk", "done"}

\* The summary has just been computed (nothing changes it afterwards).
AfterSummary == pc = "select_user"

\* The filtered license events of the group of summary row a.
GroupOf(a) == {r \in license_filtered.rows : Key(r) = Key(a)}

\* C1: the license summary holds at most one row per (date, user_id,
\* device_id) key, a key with a NaN user or device included.
C1_NoDuplicateKey ==
    AfterSummary =>
    \A a \in license_agg : \A b \in license_agg : Key(a) = Key(b) => a = b

\* C1 witness: a summary with a NaN-user key, a subject join and a user whose
\* repeat count was joined from two flagged dates.
C1_Witness ==
    /\ AfterSummary
    /\ HasSubjects(meta)
    /\ \E a \in license_agg : isna(a.user_id)
    /\ \E a \in license_agg : a.repeat_count_dates_gt_10 = 2

\* C2: videos_hit_license of a group is the number of distinct lesson ids
\* of the group that are not NaN, and is at most total_rows.
C2_VideosHitDistinct ==
    AfterSummary =>
    \A a \in license_agg :
        /\ a.videos_hit_license = Cardinality({r.lesson_id : r \in GroupOf(a)} \ {NaN})
        /\ a.videos_hit_license <= a.total_rows

\* C2 witness: a group in which a lesson was hit more than once.
C2_Witness ==
    /\ AfterSummary
    /\ \E a \in license_agg :
          a.videos_hit_license >= 2 /\ a.total_rows > a.videos_hit_license

\* C3: total_rows of a group is the number of license events of the group,
\* the events without a lesson id included.
C3_TotalRowsCountsEveryRow ==
    AfterSummary =>
    \A a \in license_agg : a.total_rows = RowCount(GroupOf(a))

\* The dates on which user u (a user_id cell) has more than ten distinct
\* lessons among the filtered license events, over all devices.
FlaggedDates(u) ==
    LET mine == {x \in license_filtered.rows : x.user_id = u /\ notna(x.date_parsed)}
    IN  {d \in {r.date_parsed : r \in mine} :
            Cardinality({r.lesson_id : r \in {x \in mine : x.date_parsed = d}} \ {NaN}) > 10}

LogicalOne(text) == text \in {One, Wrapped(One)}

\* The text of a content_sub_type cell as it stands in the file.
RawSubType(x) == IF isna(x) THEN <<>> ELSE Val(x).text

\* C5: a submission is qbank if and only if its content_type is "lesson"
\* and its sub-type is the logical value one, in either encoding; any other
\* sub-type (NaN, 10, 21, another text) is not qbank.
C5_QbankIffLogicalOne ==
    \A r \in ldf.rows :
        is_qbank(r) <=> (r.content_type = Some("lesson")
                         /\ LogicalOne(RawSubType(r.content_sub_type)))

\* The calendar day a raw date cell stands for.
IsCalendarCell(c) == c.kind \in {"iso", "slash", "millis"}

CalendarDay(c) ==
    IF c.kind = "millis" THEN c.secs \div SecondsPerDay
    ELSE DaysFromCivil(c.y, c.m, c.d)

\* C6: a raw date normalises to the calendar day it stands for, whether it
\* is written as epoch milliseconds or as a calendar text, in the license
\* table and in the submission table alike (so two encodings of one day
\* normalise to equal dates).
C6_EncodingIndependent ==
    /\ \A r \in license_df.rows :
          (DateColumn(Val(f_license)) # "" /\ IsCalendarCell(r.date))
              => r.date_parsed = Some(CalendarDay(r.date))
    /\ \A r \in ldf.rows :
          ("submitted_on" \in ldf.columns /\ IsCalendarCell(r.submitted_on))
              => r.submit_date = Some(CalendarDay(r.submitted_on))
    /\ (f_lesson # NoFile /\ pc = "raised")
          => \E r \in Val(f_lesson).rows : ~IsCalendarCell(r.submitted_on)

\* C7: a date cell that cannot be parsed never ends the run with an
\* exception; its row is kept with a NaT date and is left out by a date
\* range.
C7_MalformedDateNeverRaises ==
    /\ pc # "raised"
    /\ \A r \in license_df.rows :
          r.date.kind = "text" =>
              /\ isna(r.date_parsed)
              /\ (AfterFilters /\ Len(date_range) = 2) => r \notin license_filtered.rows
    /\ \A r \in ldf.rows : r.submitted_on.kind = "text" => isna(r.submit_date)

\* The i-th risk factor as the claim states it: min(raw / cap, 1).
ClaimedFactor(raw, cap) == IF raw <= cap THEN <<raw, cap>> ELSE <<1, 1>>

RatEq(a, b) == a[1] * b[2] = b[1] * a[2]

\* C8: the risk factors of the selected user are, in the order videos,
\* devices, days active, hours, over90, min(raw / cap, 1) with the caps 200,
\* 5, 30, 50 and 100, hence in [0, 1]; without the playback_minutes
\* (quality) column the hours (over90) factor is 0.
C8_RiskFactorsClamped ==
    (pc = "done" /\ vals # <<>>) =>
        LET ua == {r \in license_df.rows : AsStr(r.user_id) = selected_user}
            raw == <<Cardinality({r.lesson_id : r \in ua} \ {NaN}),
                     Cardinality({r.device_id : r \in ua} \ {NaN}),
                     Cardinality({r.date_parsed : r \in ua} \ {NaN}),
                     SumMinutes(ua),
                     Cardinality({r \in ua : notna(r.quality)})>>
            cap == <<200, 5, 30, 50 * 60, 100>>
        IN  /\ Len(vals) = 5
            /\ \A i \in 1..5 :
                  /\ RatEq(vals[i], ClaimedFactor(raw[i], cap[i]))
                  /\ RatLe(<<0, 1>>, vals[i])
                  /\ RatLe(vals[i], <<1, 1>>)
            /\ "playback_minutes" \notin license_df.columns => vals[4][1] = 0
            /\ "quality" \notin license_df.columns => vals[5][1] = 0

\* C8 witness: a selected user with 500 distinct videos, whose videos factor
\* is 1, in a table without a quality column.
C8_Witness ==
    /\ pc = "done"
    /\ vals # <<>>
    /\ Cardinality({r.lesson_id : r \in OfUser(license_df.rows, selected_user)}) = 500
    /\ vals[1] = <<1, 1>>
    /\ "quality" \notin license_df.columns
    /\ vals[5][1] = 0

\* C9: license rows without a user or a device stay a group of their own in
\* every roll-up (the summary, the subject roll-up, the repeat count), and
\* they are never selected by, or put together with, the text "nan".
C9_NullKeysKeptApart ==
    /\ AfterFilters =>
          \A r \in license_filtered.rows :
              user_filter # "" => r.user_id = Some(user_filter)
    /\ AfterSummary =>
          /\ \A k \in KeysWithNull(license_filtered.rows) :
                \E a \in license_agg : Key(a) = k
          /\ HasSubjects(meta) =>
                \A k \in KeysWithNull(license_filtered.rows) :
                    \E x \in SubjRollup(license_filtered, meta) : Key(x) = k
          /\ \A r \in license_filtered.rows :
                notna(r.date_parsed) =>
                    \E x \in UserRepeat(license_filtered) :
                        x.date_parsed = r.date_parsed /\ x.user_id = r.user_id

\* C10: with a date range (start, end), a license row passes the date filter
\* if and only if its date is not NaT and start <= date <= end.
C10_DateRangeInclusive ==
    (pc = "license_agg" /\ Len(date_range) = 2) =>
        \A r \in license_df.rows :
            r \in license_filtered.rows
                <=> /\ r.date_parsed # NaN
                    /\ date_range[1] <= r.date_parsed[1]
                    /\ r.date_parsed[1] <= date_range[2]
                    /\ (user_filter = "" \/ AsStr(r.user_id) = user_filter)

\* C10 witness: a range that keeps a row dated at its start and a row dated
\* at its end, and drops a row before it, a row after it and no other.
C10_Witness ==
    /\ pc = "license_agg"
    /\ Len(date_range) = 2
    /\ date_range[1] < date_range[2]
    /\ \E r \in license_filtered.rows : r.date_parsed = Some(date_range[1])
    /\ \E r \in license_filtered.rows : r.date_parsed = Some(date_range[2])
    /\ \E r \in license_df.rows \ license_filtered.rows :
          notna(r.date_parsed) /\ Val(r.date_parsed) < date_range[1]
    /\ \E r \in license_df.rows \ license_filtered.rows :
          notna(r.date_parsed) /\ Val(r.date_parsed) > date_range[2]

\* A row dated `date` of user `user` satisfies the two sidebar predicates:
\* inside the date range (when a range is set) and of the filtered user (when
\* a user is set; the user compared the way the script compares it).
PassesFilters(date, user) ==
    /\ Len(date_range) = 2 => InRange(date, date_range)
    /\ user_filter # "" => AsStr(user) = user_filter

\* C11: no row outside the date range or of another user than the filtered
\* one contributes to a returned table: every row of the license summary, of
\* the submission roll-up and of the suspicious logs shown satisfies both
\* predicates, and so does every row of the three drill-down views, which
\* belong to the selected user.
C11_FiltersOnEveryStream ==
    pc = "done" =>
        /\ \A a \in license_agg : PassesFilters(a.date_parsed, a.user_id)
        /\ \A q \in qb_agg : PassesFilters(q.submit_date, q.user_id)
        /\ \A s \in susp_shown : PassesFilters(s.created_on_dt, s.user_id)
        /\ \A a \in views.lf :
              AsStr(a.user_id) = selected_user /\ PassesFilters(a.date_parsed, a.user_id)
        /\ \A q \in views.qf :
              AsStr(q.user_id) = selected_user /\ PassesFilters(q.submit_date, q.user_id)
        /\ \A r \in views.sf :
              /\ AsStr(r.user_id) = selected_user
              /\ \E s \in susp_shown :
                    s.idx = r.idx /\ PassesFilters(s.created_on_dt, s.user_id)

\* The run has ended without an exception.
RunEnded == pc \in {"done", "stopped"}

\* An uploaded file that holds at least one row.
HasRows(f) == f # NoFile /\ Val(f).rows # {}

\* C12: an absent table leaves only the components that depend on it
\* unavailable.  At the end of a run, whatever other file is absent: the
\* submission roll-up of an uploaded (readable) submission table has been
\* produced, the uploaded suspicious logs are shown, and the license summary
\* of an uploaded license table has been computed; the component of an
\* absent table is empty.
C12_AbsentTableStopsOnlyDependents ==
    RunEnded =>
        /\ (HasRows(f_lesson) /\ ~LessonRaises(Val(f_lesson)))
              => qb_agg = QbAgg(ReadLessonFrame(Val(f_lesson)))
        /\ HasRows(f_susp) => susp_shown = SuspShown(ReadSuspFrame(Val(f_susp)))
        /\ f_license # NoFile => pc = "done"
        /\ f_lesson = NoFile => qb_agg = {}
        /\ f_susp = NoFile => susp_shown = {}
        /\ f_license = NoFile => (license_agg = {} /\ vals = <<>>)

\* The keys of the roll-ups that go into the summary: the license roll-up
\* (the subject roll-up and the repeat count have no other keys) and the
\* submission roll-up.
RollupKeys ==
    KeysWithNull(license_filtered.rows) \cup {SubKey(r) : r \in ldf.rows}

\* C13: the summary is the outer join of the roll-ups on (date, user_id,
\* device_id): every key of a roll-up, a key of the submission roll-up alone
\* and a key with a NaN user or device included, has a summary row; the text
\* cell subjects_per_device is never null (it is the empty text when nothing
\* matches), and neither is a count joined to the submission roll-up.
C13_SummaryIsOuterJoin ==
    pc = "done" =>
        /\ \A k \in RollupKeys : \E a \in license_agg : Key(a) = k
        /\ \A a \in license_agg : notna(a.subjects_per_device)
        /\ \A q \in qb_agg : notna(q.cm_submits)

====
